---- MODULE Spec2Model ----
(***************************************************************************)
(* The two loaders brk-cfs-load.py ("cfs": cash-flow repurchases) and      *)
(* brk-ratios-load.py ("ratios": financial ratios).  Each is one script:   *)
(* fetch -> normalize -> filter -> chunked upsert -> verifying read.       *)
(*                                                                         *)
(* The initial state is the script loaded: the environment variables were  *)
(* found and the client was built.  A behaviour is any number of runs of   *)
(* main() of one script against its table.                                 *)
(*                                                                         *)
(* The provider and the table store are the environment.  A request or a   *)
(* storage call either raises in the script or returns.  An upsert that    *)
(* raises commits nothing of its batch; one that returns has replaced or   *)
(* inserted every row of the batch by (symbol, date), the rows applied in  *)
(* list order.  A store that rejects a batch holding one key twice is the  *)
(* raising outcome.  The read returns the values as they were written.     *)
(***************************************************************************)
EXTENDS Integers, Sequences, FiniteSets

VARIABLES
    pipe,     \* which script this behaviour is about: "cfs" or "ratios"
    store,    \* the persisted table TABLE: a set of rows
    pc,       \* position of main(): idle, fetched, normalized, upsert, verify, done, aborted
    err,      \* the exception that ended the run ("" when none)
    resp,     \* outcome of the provider request of this run: none, fail, nonlist, list
    data,     \* main's `data`: what the fetch returned
    rows,     \* main's `rows`
    i,        \* upsert_rows: offset of the next chunk (range(0, len, size)), 0-based
    ops,      \* storage operations issued in this run, in order
    reqs,     \* provider requests issued in this run
    report,   \* what the verifier printed in this run
    store0,   \* the table as it was when this run began
    base,     \* the table as it was when the first run on the current records began
    rerun     \* this run fetched the same record list as the run before it

vars == <<pipe, store, pc, err, resp, data, rows, i, ops, reqs, report, store0, base, rerun>>

----------------------------------------------------------------------------
(* Decoded JSON values.  t is the Python type of the value; "absent" marks *)
(* a key the mapping does not have.  A float carries its value in tenths.  *)

Absent == [t |-> "absent", s |-> "", n |-> 0]
Null == [t |-> "null", s |-> "", n |-> 0]
JStr(x) == [t |-> "str", s |-> x, n |-> 0]
JInt(k) == [t |-> "int", s |-> "", n |-> k]
JFloat(k) == [t |-> "float", s |-> "", n |-> k]
JBool(b) == [t |-> "bool", s |-> "", n |-> IF b THEN 1 ELSE 0]

\* dict.get(key): None when the key is absent
Get(row, k) == IF row[k] = Absent THEN Null ELSE row[k]

\* dict.get(key, default)
GetDefault(row, k, d) == IF row[k] = Absent THEN d ELSE row[k]

\* Python truth value of an object
Truthy(v) ==
    CASE v.t = "str" -> v.s # ""
      [] v.t \in {"int", "float", "bool"} -> v.n # 0
      [] OTHER -> FALSE

\* The outcome of an expression: the value, or the exception it raised
Ok(v) == [exc |-> "", val |-> v]
Raise(e) == [exc |-> e, val |-> Null]

\* int(x)
PyInt(v) ==
    CASE v.t = "int" -> Ok(v)
      [] v.t = "bool" -> Ok(JInt(v.n))
      [] v.t = "float" -> Ok(JInt(IF v.n >= 0 THEN v.n \div 10 ELSE -((-v.n) \div 10)))
      [] v.t = "str" -> (CASE v.s = "2024" -> Ok(JInt(2024))
                           [] v.s = "7" -> Ok(JInt(7))
                           [] OTHER -> Raise("ValueError"))
      [] OTHER -> Raise("TypeError")

\* float(x)
PyFloat(v) ==
    CASE v.t = "float" -> Ok(v)
      [] v.t \in {"int", "bool"} -> Ok(JFloat(10 * v.n))
      [] v.t = "str" -> (CASE v.s = "2024" -> Ok(JFloat(20240))
                           [] v.s = "7" -> Ok(JFloat(70))
                           [] v.s = "1.5" -> Ok(JFloat(15))
                           [] OTHER -> Raise("ValueError"))
      [] OTHER -> Raise("TypeError")

\* ratios: safe_float
safe_float(value) ==
    IF value = Null \/ value = JStr("")
    THEN Null
    ELSE IF PyFloat(value).exc \in {"ValueError", "TypeError"}
         THEN Null
         ELSE PyFloat(value).val

\* ratios: safe_int
safe_int(value) ==
    IF value = Null \/ value = JStr("")
    THEN Null
    ELSE IF PyInt(value).exc \in {"ValueError", "TypeError"}
         THEN Null
         ELSE PyInt(value).val

\* cfs: to_timestamptz followed by .isoformat(); strptime with the exact
\* format, then fromisoformat, then None
to_timestamptz(s) ==
    IF ~Truthy(s) THEN Null
    ELSE CASE s = JStr("2024-05-01 00:00:00") -> JStr("2024-05-01T00:00:00")
           [] s = JStr("2024-05-01T00:00:00+00:00") -> JStr("2024-05-01T00:00:00+00:00")
           [] OTHER -> Null

\* cfs: the fiscal_year expression of normalize_row
CfsFiscalYear(row) ==
    IF Get(row, "fiscalYear") \notin {Null, JStr("")}
    THEN PyInt(row["fiscalYear"])
    ELSE Ok(Null)

\* cfs: normalize_row
NormalizeCfs(row) ==
    IF CfsFiscalYear(row).exc # ""
    THEN Raise(CfsFiscalYear(row).exc)
    ELSE Ok([symbol |-> Get(row, "symbol"),
             date |-> Get(row, "date"),
             cik |-> Get(row, "cik"),
             reported_currency |-> Get(row, "reportedCurrency"),
             filing_date |-> Get(row, "filingDate"),
             accepted_at |-> to_timestamptz(Get(row, "acceptedDate")),
             fiscal_year |-> CfsFiscalYear(row).val,
             period |-> Get(row, "period"),
             common_stock_repurchased |-> Get(row, "commonStockRepurchased"),
             raw |-> row,
             source |-> JStr("FMP")])

\* ratios: normalize_row
NormalizeRatios(row) ==
    Ok([symbol |-> Get(row, "symbol"),
        date |-> Get(row, "date"),
        fiscal_year |-> safe_int(Get(row, "fiscalYear")),
        period |-> Get(row, "period"),
        reported_currency |-> GetDefault(row, "reportedCurrency", JStr("USD")),
        book_value_per_share |-> safe_float(Get(row, "bookValuePerShare")),
        price_to_book_ratio |-> safe_float(Get(row, "priceToBookRatio")),
        price_to_earnings_ratio |-> safe_float(Get(row, "priceToEarningsRatio")),
        price_to_sales_ratio |-> safe_float(Get(row, "priceToSalesRatio")),
        net_profit_margin |-> safe_float(Get(row, "netProfitMargin")),
        gross_profit_margin |-> safe_float(Get(row, "grossProfitMargin")),
        operating_profit_margin |-> safe_float(Get(row, "operatingProfitMargin")),
        debt_to_equity_ratio |-> safe_float(Get(row, "debtToEquityRatio")),
        current_ratio |-> safe_float(Get(row, "currentRatio")),
        quick_ratio |-> safe_float(Get(row, "quickRatio")),
        revenue_per_share |-> safe_float(Get(row, "revenuePerShare")),
        net_income_per_share |-> safe_float(Get(row, "netIncomePerShare")),
        cash_per_share |-> safe_float(Get(row, "cashPerShare")),
        free_cash_flow_per_share |-> safe_float(Get(row, "freeCashFlowPerShare")),
        source |-> JStr("FMP"),
        raw_data |-> row])

normalize_row(p, row) == IF p = "cfs" THEN NormalizeCfs(row) ELSE NormalizeRatios(row)

----------------------------------------------------------------------------
(* The rest of main() up to the storage calls.                             *)

\* SYMBOL
SYMBOL == JStr("BRK-B")

\* the filter of main: r.get("symbol") and r.get("date")
Keep(r) == Truthy(r.symbol) /\ Truthy(r.date)

\* rows = [normalize_row(r) for r in data]: the exception of the first record
\* that raises, "" when none does
FirstExc(p, d) ==
    LET bad == {j \in DOMAIN d : normalize_row(p, d[j]).exc # ""}
    IN  IF bad = {} THEN ""
        ELSE normalize_row(p, d[CHOOSE j \in bad : \A k \in bad : j <= k]).exc

NormalizeAll(p, d) == [j \in DOMAIN d |-> normalize_row(p, d[j]).val]

----------------------------------------------------------------------------
(* chunked / upsert_rows and the table store.                              *)

\* batch size passed by upsert_rows to chunked
BatchSize == 500

Min(a, b) == IF a <= b THEN a ELSE b

\* chunked with the slice one row short: iterable[i:i+size-1]
Slice_short(iterable, ofs, size) ==
    SubSeq(iterable, ofs + 1, Min(ofs + size - 1, Len(iterable)))

\* chunked: iterable[i:i+size] for a 0-based offset i
Slice(iterable, ofs, size) == SubSeq(iterable, ofs + 1, Min(ofs + size, Len(iterable)))

\* conflict target of the upsert: on_conflict="symbol,date"
Key(r) == <<r.symbol, r.date>>

\* index of the last row of the batch with key k
LastIdx(batch, k) ==
    LET n == Len(batch)
        m == CHOOSE m \in 0..(n - 1) :
                 /\ Key(batch[n - m]) = k
                 /\ \A q \in 0..(m - 1) : Key(batch[n - q]) # k
    IN  n - m

\* a plain insert: no conflict target
Upsert_insert(S, batch) == S \cup {batch[j] : j \in DOMAIN batch}

\* ignore_duplicates=True: a row whose key exists is skipped
Upsert_ignore(S, batch) ==
    LET held == {Key(r) : r \in S}
        fresh == {Key(batch[j]) : j \in DOMAIN batch} \ held
    IN  S \cup {batch[CHOOSE j \in DOMAIN batch :
                        /\ Key(batch[j]) = k
                        /\ \A q \in 1..(j - 1) : Key(batch[q]) # k] : k \in fresh}

\* one .upsert(batch, on_conflict="symbol,date", ignore_duplicates=False)
\* that the store accepted: every row of the batch replaces the row with its
\* key, or is inserted; rows of the batch are applied in list order
Upsert(S, batch) ==
    LET keys == {Key(batch[j]) : j \in DOMAIN batch}
    IN  {r \in S : Key(r) \notin keys}
          \cup {batch[LastIdx(batch, k)] : k \in keys}

\* upsert_rows when every storage call succeeds, from offset ofs on
RECURSIVE UpsertFrom(_, _, _)
UpsertFrom(S, rs, ofs) ==
    IF ofs >= Len(rs) THEN S
    ELSE UpsertFrom(Upsert(S, Slice(rs, ofs, BatchSize)), rs, ofs + BatchSize)

upsert_rows(S, rs) == IF rs = <<>> THEN S ELSE UpsertFrom(S, rs, 0)

UpsertOp(batch, ok) == [kind |-> "upsert", batch |-> batch, ok |-> ok]
SelectOp(ok) == [kind |-> "select", batch |-> <<>>, ok |-> ok]

----------------------------------------------------------------------------
(* The verifier of main().                                                 *)

\* ascending order of the ISO dates the model uses
DateRank(v) ==
    CASE v = JStr("2024-03-31") -> 1
      [] v = JStr("2024-06-30") -> 2
      [] OTHER -> 0

RECURSIVE SortByDate(_)
SortByDate(S) ==
    IF S = {} THEN <<>>
    ELSE LET m == CHOOSE r \in S : \A q \in S : DateRank(r.date) <= DateRank(q.date)
         IN  <<m>> \o SortByDate(S \ {m})

\* .select(...).eq("symbol", SYMBOL).order("date", desc=False)
Select(S) == SortByDate({r \in S : r.symbol = SYMBOL})

\* abs(x)
PyAbs(v) ==
    CASE v.t \in {"int", "float"} -> Ok([v EXCEPT !.n = IF v.n < 0 THEN -v.n ELSE v.n])
      [] v.t = "bool" -> Ok(JInt(v.n))
      [] OTHER -> Raise("TypeError")

\* x != 0
NotZero(v) == ~(v.t \in {"int", "float", "bool"} /\ v.n = 0)

Line(kind, a, b) == [line |-> kind, a |-> a, b |-> b]

\* cfs: the loop over res.data
RECURSIVE CfsSamples(_, _)
CfsSamples(res, j) ==
    IF j > Len(res) THEN Ok(<<>>)
    ELSE IF ~NotZero(res[j].common_stock_repurchased) THEN CfsSamples(res, j + 1)
    ELSE IF PyAbs(res[j].common_stock_repurchased).exc # ""
         THEN Raise(PyAbs(res[j].common_stock_repurchased).exc)
    ELSE IF CfsSamples(res, j + 1).exc # "" THEN CfsSamples(res, j + 1)
    ELSE Ok(<<Line("sample", res[j].fiscal_year, PyAbs(res[j].common_stock_repurchased).val)>>
              \o CfsSamples(res, j + 1).val)

NA(v) == IF v # Null THEN v ELSE JStr("N/A")

\* ratios: the loop over res.data[-5:]
RatiosSamples(res) ==
    LET last5 == SubSeq(res, IF Len(res) > 5 THEN Len(res) - 4 ELSE 1, Len(res))
    IN  Ok([j \in DOMAIN last5 |->
              Line("sample", NA(last5[j].book_value_per_share), NA(last5[j].price_to_book_ratio))])

\* what main prints after the read returned res
Summarize(p, res) ==
    IF res = <<>> THEN Ok(<<Line("nodata", Null, Null)>>)
    ELSE LET smp == IF p = "cfs" THEN CfsSamples(res, 1) ELSE RatiosSamples(res)
         IN  IF smp.exc # "" THEN smp
             ELSE Ok(<<Line("range", res[1].date, res[Len(res)].date)>> \o smp.val)

----------------------------------------------------------------------------
(* What the provider can answer.                                           *)

\* longest list of records drawn freely from Probes
MaxLen == 1

\* length of the one long record list (more than two chunks)
LongLen == 1001

D1 == JStr("2024-03-31")
D2 == JStr("2024-06-30")

\* a cash-flow-statement record of the provider
CfsRec(sym, date, fy, m) ==
    [symbol |-> sym, date |-> date, cik |-> JStr("0001067983"),
     reportedCurrency |-> JStr("USD"), filingDate |-> JStr("2024-05-04"),
     acceptedDate |-> JStr("2024-05-01 00:00:00"), fiscalYear |-> fy,
     period |-> JStr("Q1"), commonStockRepurchased |-> m]

\* a ratios record of the provider
RatiosRec(sym, date, fy, m) ==
    [symbol |-> sym, date |-> date, fiscalYear |-> fy, period |-> JStr("Q1"),
     reportedCurrency |-> Absent, bookValuePerShare |-> m,
     priceToBookRatio |-> JFloat(15), priceToEarningsRatio |-> JFloat(210),
     priceToSalesRatio |-> JFloat(23), netProfitMargin |-> JFloat(2),
     grossProfitMargin |-> JFloat(3), operatingProfitMargin |-> JFloat(1),
     debtToEquityRatio |-> JFloat(4), currentRatio |-> JFloat(30),
     quickRatio |-> JFloat(28), revenuePerShare |-> JFloat(420),
     netIncomePerShare |-> JFloat(61), cashPerShare |-> JFloat(770),
     freeCashFlowPerShare |-> JFloat(55)]

RawRec(p, sym, date, fy, m) ==
    IF p = "cfs" THEN CfsRec(sym, date, fy, m) ELSE RatiosRec(sym, date, fy, m)

\* <<symbol, date, fiscalYear, metric>> of the records the provider sends
P1 == <<SYMBOL, D1, JInt(2024), JInt(-5)>>
P2 == <<SYMBOL, D1, Null, Absent>>
P3 == <<SYMBOL, D2, JStr("2024"), JInt(0)>>
P4 == <<JStr("AAPL"), D1, JStr("abc"), JBool(TRUE)>>
P5 == <<SYMBOL, JStr(""), JInt(2024), JInt(7)>>
P6 == <<Absent, D1, JInt(2024), JInt(7)>>

Probes == {P1, P2, P3, P4, P5, P6}

Rec(p, q) == RawRec(p, q[1], q[2], q[3], q[4])

\* every list of at most MaxLen records
ShortLists(p) == UNION {[1..k -> {Rec(p, q) : q \in Probes}] : k \in 0..MaxLen}

\* a list of LongLen records: more than two chunks
LongList(p) ==
    [j \in 1..LongLen |->
        Rec(p, IF j <= BatchSize THEN P1 ELSE IF j <= 2 * BatchSize THEN P3 ELSE P2)]

\* two quarters of SYMBOL around a record without a date; the same quarter
\* twice with different values, in both orders
Scenarios(p) ==
    { <<Rec(p, P1), Rec(p, P5), Rec(p, P3)>>,
      <<Rec(p, P1), Rec(p, P2)>>,
      <<Rec(p, P2), Rec(p, P1)>> }

CfsLists == ShortLists("cfs") \cup Scenarios("cfs") \cup {LongList("cfs")}
RatiosLists == ShortLists("ratios") \cup Scenarios("ratios") \cup {LongList("ratios")}

FetchLists(p) == IF p = "cfs" THEN CfsLists ELSE RatiosLists

----------------------------------------------------------------------------
(* main(): one action per provider request or storage call and its outcome.*)

Init ==
    /\ pipe \in {"cfs", "ratios"}
    /\ store = {}
    /\ pc = "idle"
    /\ err = ""
    /\ resp = "none"
    /\ data = <<>>
    /\ rows = <<>>
    /\ i = 0
    /\ ops = <<>>
    /\ reqs = 0
    /\ report = <<>>
    /\ store0 = {}
    /\ base = {}
    /\ rerun = FALSE

\* main() is entered: a new run
Enter ==
    /\ pc \in {"idle", "done", "aborted"}
    /\ rows' = <<>>
    /\ i' = 0
    /\ ops' = <<>>
    /\ reqs' = 1
    /\ report' = <<>>
    /\ store0' = store
    /\ UNCHANGED <<pipe, store>>

\* the failed request is sent a second time and the run goes on
FetchFail_retry ==
    /\ pc \in {"idle", "done", "aborted"}
    /\ err' = ""
    /\ rows' = <<>>
    /\ i' = 0
    /\ ops' = <<>>
    /\ reqs' = 2
    /\ report' = <<>>
    /\ store0' = store
    /\ resp' = "fail"
    /\ data' = <<>>
    /\ pc' = "fetched"
    /\ base' = store
    /\ rerun' = FALSE
    /\ UNCHANGED <<pipe, store>>

\* requests.get / raise_for_status raises
FetchFail ==
    /\ Enter
    /\ resp' = "fail"
    /\ data' = <<>>
    /\ pc' = "aborted"
    /\ err' = "TransportError"
    /\ base' = store
    /\ rerun' = FALSE

\* the decoded response is not a list
FetchNonList ==
    /\ Enter
    /\ resp' = "nonlist"
    /\ data' = <<>>
    /\ pc' = "fetched"
    /\ err' = ""
    /\ base' = store
    /\ rerun' = FALSE

\* the decoded response is the list d
FetchList(d) ==
    /\ Enter
    /\ resp' = "list"
    /\ data' = d
    /\ pc' = "fetched"
    /\ err' = ""
    /\ rerun' = (resp = "list" /\ d = data)
    /\ base' = IF rerun' THEN base ELSE store

\* rows = [normalize_row(r) for r in data]
Normalize ==
    /\ pc = "fetched"
    /\ FirstExc(pipe, data) = ""
    /\ rows' = NormalizeAll(pipe, data)
    /\ pc' = "normalized"
    /\ UNCHANGED <<pipe, store, err, resp, data, i, ops, reqs, report, store0, base, rerun>>

\* normalize_row raises on some record
NormalizeRaise ==
    /\ pc = "fetched"
    /\ FirstExc(pipe, data) # ""
    /\ err' = FirstExc(pipe, data)
    /\ pc' = "aborted"
    /\ UNCHANGED <<pipe, store, resp, data, rows, i, ops, reqs, report, store0, base, rerun>>

\* rows = [r for r in rows if r.get("symbol") and r.get("date")]
Filter ==
    /\ pc = "normalized"
    /\ rows' = SelectSeq(rows, Keep)
    /\ i' = 0
    /\ pc' = "upsert"
    /\ UNCHANGED <<pipe, store, err, resp, data, ops, reqs, report, store0, base, rerun>>

\* upsert_rows: if not rows: return
UpsertEmpty ==
    /\ pc = "upsert"
    /\ rows = <<>>
    /\ pc' = "verify"
    /\ UNCHANGED <<pipe, store, err, resp, data, rows, i, ops, reqs, report, store0, base, rerun>>

\* upsert_rows: the next chunk is written
UpsertChunk ==
    /\ pc = "upsert"
    /\ rows # <<>>
    /\ i < Len(rows)
    /\ store' = Upsert(store, Slice(rows, i, BatchSize))
    /\ ops' = Append(ops, UpsertOp(Slice(rows, i, BatchSize), TRUE))
    /\ i' = i + BatchSize
    /\ UNCHANGED <<pipe, pc, err, resp, data, rows, reqs, report, store0, base, rerun>>

\* the failure of a chunk is swallowed and the loop goes on
UpsertFail_swallow ==
    /\ pc = "upsert"
    /\ rows # <<>>
    /\ i < Len(rows)
    /\ ops' = Append(ops, UpsertOp(Slice(rows, i, BatchSize), FALSE))
    /\ i' = i + BatchSize
    /\ UNCHANGED <<pipe, store, pc, err, resp, data, rows, reqs, report, store0, base, rerun>>

\* upsert_rows: the write of the next chunk fails
UpsertFail ==
    /\ pc = "upsert"
    /\ rows # <<>>
    /\ i < Len(rows)
    /\ ops' = Append(ops, UpsertOp(Slice(rows, i, BatchSize), FALSE))
    /\ pc' = "aborted"
    /\ err' = "StorageError"
    /\ UNCHANGED <<pipe, store, resp, data, rows, i, reqs, report, store0, base, rerun>>

\* upsert_rows: the loop is exhausted
UpsertReturn ==
    /\ pc = "upsert"
    /\ rows # <<>>
    /\ i >= Len(rows)
    /\ pc' = "verify"
    /\ UNCHANGED <<pipe, store, err, resp, data, rows, i, ops, reqs, report, store0, base, rerun>>

\* the verifier's read fails
VerifyReadFail ==
    /\ pc = "verify"
    /\ ops' = Append(ops, SelectOp(FALSE))
    /\ pc' = "aborted"
    /\ err' = "StorageError"
    /\ UNCHANGED <<pipe, store, resp, data, rows, i, reqs, report, store0, base, rerun>>

\* the verifier's read returns and the summary is printed
VerifyReport ==
    /\ pc = "verify"
    /\ Summarize(pipe, Select(store)).exc = ""
    /\ ops' = Append(ops, SelectOp(TRUE))
    /\ report' = Summarize(pipe, Select(store)).val
    /\ pc' = "done"
    /\ UNCHANGED <<pipe, store, err, resp, data, rows, i, reqs, store0, base, rerun>>

\* the verifier's read returns and printing the summary raises
VerifyRaise ==
    /\ pc = "verify"
    /\ Summarize(pipe, Select(store)).exc # ""
    /\ ops' = Append(ops, SelectOp(TRUE))
    /\ err' = Summarize(pipe, Select(store)).exc
    /\ pc' = "aborted"
    /\ UNCHANGED <<pipe, store, resp, data, rows, i, reqs, report, store0, base, rerun>>

Next ==
    \/ FetchFail
    \/ FetchNonList
    \/ \E d \in FetchLists(pipe) : FetchList(d)
    \/ Normalize
    \/ NormalizeRaise
    \/ Filter
    \/ UpsertEmpty
    \/ UpsertChunk
    \/ UpsertFail
    \/ UpsertReturn
    \/ VerifyReadFail
    \/ VerifyReport
    \/ VerifyRaise

Spec == Init /\ [][Next]_vars

----------------------------------------------------------------------------
(* normalize_row and the filter on one record of any shape.                *)

\* values a field of a provider record can hold
JsonVals ==
    { Absent, Null, JStr(""), JStr("abc"), JStr("2024"), JStr("1.5"),
      JInt(2024), JInt(0), JFloat(15), JBool(TRUE), JBool(FALSE) }

KeyVals == {Absent, Null, JStr(""), SYMBOL, D1}

StampVals ==
    { Absent, Null, JStr("2024-05-01 00:00:00"), JStr("2024-05-01T00:00:00+00:00"),
      JStr("not-a-date"), JInt(2024) }

\* <<provider key, column>> of the numeric columns of each table
NumericFields(p) ==
    IF p = "cfs"
    THEN { <<"fiscalYear", "fiscal_year">>,
           <<"commonStockRepurchased", "common_stock_repurchased">> }
    ELSE { <<"fiscalYear", "fiscal_year">>,
           <<"bookValuePerShare", "book_value_per_share">>,
           <<"priceToBookRatio", "price_to_book_ratio">>,
           <<"priceToEarningsRatio", "price_to_earnings_ratio">>,
           <<"priceToSalesRatio", "price_to_sales_ratio">>,
           <<"netProfitMargin", "net_profit_margin">>,
           <<"grossProfitMargin", "gross_profit_margin">>,
           <<"operatingProfitMargin", "operating_profit_margin">>,
           <<"debtToEquityRatio", "debt_to_equity_ratio">>,
           <<"currentRatio", "current_ratio">>,
           <<"quickRatio", "quick_ratio">>,
           <<"revenuePerShare", "revenue_per_share">>,
           <<"netIncomePerShare", "net_income_per_share">>,
           <<"cashPerShare", "cash_per_share">>,
           <<"freeCashFlowPerShare", "free_cash_flow_per_share">> }

\* one record: every value in one numeric field, every pair of values in
\* fiscalYear and the first metric, every pair of symbol and date, and (cfs)
\* every acceptedDate
NormInputs(p) ==
    LET good == Rec(p, P1)
    IN  {[good EXCEPT ![f[1]] = v] : f \in NumericFields(p), v \in JsonVals}
          \cup {RawRec(p, SYMBOL, D1, v, w) : v \in JsonVals, w \in JsonVals}
          \cup {RawRec(p, v, w, JInt(2024), JInt(7)) : v \in KeyVals, w \in KeyVals}
          \cup (IF p = "cfs"
                THEN {[good EXCEPT !["acceptedDate"] = v] : v \in StampVals}
                ELSE {})

InitNorm ==
    /\ pipe \in {"cfs", "ratios"}
    /\ store = {}
    /\ pc = "fetched"
    /\ err = ""
    /\ resp = "list"
    /\ \E rec \in NormInputs(pipe) : data = <<rec>>
    /\ rows = <<>>
    /\ i = 0
    /\ ops = <<>>
    /\ reqs = 1
    /\ report = <<>>
    /\ store0 = {}
    /\ base = {}
    /\ rerun = FALSE

NextNorm == Normalize \/ NormalizeRaise \/ Filter

SpecNorm == InitNorm /\ [][NextNorm]_vars

----------------------------------------------------------------------------
(* upsert_rows on a row list of any length.                                *)

\* longest row list handed to upsert_rows
MaxRows == 1200

\* the j-th row: a kept row of SYMBOL that carries j in its metric
ChunkRow(p, j) ==
    normalize_row(p, RawRec(p, SYMBOL, IF j % 2 = 1 THEN D1 ELSE D2, JInt(2024), JInt(j))).val

\* the lengths tried: at and next to every multiple of 50, and MaxRows
ChunkLens ==
    {n \in 0..MaxRows : n = MaxRows \/ n % 50 \in {0, 1, 2, 49}}

InitChunk ==
    /\ pipe \in {"cfs", "ratios"}
    /\ store = {}
    /\ pc = "upsert"
    /\ err = ""
    /\ resp = "list"
    /\ data = <<>>
    /\ \E n \in ChunkLens : rows = [j \in 1..n |-> ChunkRow(pipe, j)]
    /\ i = 0
    /\ ops = <<>>
    /\ reqs = 1
    /\ report = <<>>
    /\ store0 = {}
    /\ base = {}
    /\ rerun = FALSE

NextChunk == UpsertEmpty \/ UpsertChunk \/ UpsertFail \/ UpsertReturn

SpecChunk == InitChunk /\ [][NextChunk]_vars

----------------------------------------------------------------------------
(* Properties.                                                             *)

IsUpsert(o) == o.kind = "upsert"

\* the rows submitted in this run, in the order submitted
RECURSIVE Flatten(_)
Flatten(os) == IF os = <<>> THEN <<>> ELSE Head(os).batch \o Flatten(Tail(os))

Submitted == Flatten(SelectSeq(ops, IsUpsert))

IsPrefix(a, b) == Len(a) <= Len(b) /\ a = SubSeq(b, 1, Len(a))

\* upsert_rows has returned in this run
Returned == pc = "verify" \/ (ops # <<>> /\ ops[Len(ops)].kind = "select")

\* the record has a symbol and a date
HasKey(rec) == Truthy(Get(rec, "symbol")) /\ Truthy(Get(rec, "date"))

RawOf(p, r) == IF p = "cfs" THEN r.raw ELSE r.raw_data

\* the last row of rs with key k
LastRow(rs, k) ==
    rs[CHOOSE j \in DOMAIN rs :
          /\ Key(rs[j]) = k
          /\ \A q \in (j + 1)..Len(rs) : Key(rs[q]) # k]

\* C1: whatever runs took place, complete or aborted, the table holds at most
\* one row per (symbol, date): an upsert on an existing key replaces the row.
C1_OneRowPerKey == \A r \in store : \A q \in store : Key(r) = Key(q) => r = q

\* a run has replaced a row the table held when the run began
C1_Witness ==
    \E r \in store0 : \E q \in store :
        Key(r) = Key(q) /\ r # q /\ \E c \in DOMAIN ops : \E j \in DOMAIN ops[c].batch : ops[c].batch[j] = q

\* C2: when upsert_rows has returned, also in a re-run on the same records
\* after complete or aborted runs, the table is what one complete run on the
\* table of before would have left, and for every key among the rows it holds
\* exactly one row, equal in every field to the normalization of the last
\* fetched record with that key.
C2_IdempotentLastWriterWins ==
    Returned =>
        /\ rows = SelectSeq(NormalizeAll(pipe, data), Keep)
        /\ store = upsert_rows(base, rows)
        /\ \A k \in {Key(rows[j]) : j \in DOMAIN rows} :
               {r \in store : Key(r) = k} = {LastRow(rows, k)}

\* a re-run on the same records completed after a run that had committed
\* some chunks only, and wrote the rest
C2_Witness == rerun /\ pc = "done" /\ base # store0 /\ store0 # store

\* C3: upsert_rows issues the chunks of 500 in order; when it returns it has
\* issued ceil(n/500) of them, all but the last of 500 rows, which
\* concatenated are the row list; none for the empty list; 500, 500, 200 for
\* 1200 rows.
C3_Chunking ==
    /\ \A c \in DOMAIN ops :
           /\ ops[c].kind = "upsert"
           /\ Len(ops[c].batch) >= 1
           /\ Len(ops[c].batch) <= 500
           /\ c < Len(ops) => Len(ops[c].batch) = 500
    /\ IsPrefix(Submitted, rows)
    /\ pc = "verify" =>
           /\ Len(ops) = (Len(rows) + 499) \div 500
           /\ Submitted = rows
           /\ Len(rows) = 1200 =>
                  [c \in DOMAIN ops |-> Len(ops[c].batch)] = <<500, 500, 200>>

\* upsert_rows has returned after three chunks for 1200 rows
C3_Witness == pc = "verify" /\ Len(rows) = 1200 /\ Len(ops) = 3

\* C4: every submitted row has a non-empty symbol and date, and in a run
\* without transport or storage failure the submitted rows are the fetched
\* records that have both, once each, in fetch order.
C4_KeptSubmittedOnce ==
    /\ \A j \in DOMAIN Submitted : Keep(Submitted[j])
    /\ (pc \in {"done", "aborted"} /\ err \notin {"TransportError", "StorageError"}) =>
           [j \in DOMAIN Submitted |-> RawOf(pipe, Submitted[j])] = SelectSeq(data, HasKey)

Malformed(v) == v \in {Null, JStr(""), JStr("abc"), JBool(TRUE), JBool(FALSE)}

\* C5: normalize_row does not raise, and every numeric column whose provider
\* value is an empty string, a non-numeric string, a boolean or null is null.
C5_SafeCastNull ==
    pc # "fetched" =>
        /\ pc # "aborted"
        /\ \A f \in NumericFields(pipe) :
               Malformed(Get(data[1], f[1])) =>
                   normalize_row(pipe, data[1]).val[f[2]] = Null

\* C6: a run ends early only by a transport or a storage error.
C6_OnlyFatalErrors == pc = "aborted" => err \in {"TransportError", "StorageError"}

\* C7: a failed chunk write is the last storage operation of its run, which
\* aborts with the storage error: before it, chunks 1..k-1 were each written
\* once, in order; no read follows; and the table is the table of before with
\* chunks 1..k-1 applied.
C7_FailedChunkAborts ==
    \A c \in DOMAIN ops :
        (ops[c].kind = "upsert" /\ ~ops[c].ok) =>
            /\ c = Len(ops)
            /\ pc = "aborted"
            /\ err = "StorageError"
            /\ \A q \in 1..c : ops[q] = UpsertOp(Slice(rows, (q - 1) * BatchSize, BatchSize), q < c)
            /\ store = upsert_rows(store0, SubSeq(rows, 1, (c - 1) * BatchSize))

\* the second of three chunks failed after the first had changed the table
C7_Witness ==
    /\ pc = "aborted"
    /\ Len(ops) = 2
    /\ ~ops[2].ok
    /\ store # store0
    /\ Len(rows) > 2 * BatchSize

\* C8: a run issues one provider request; when the request fails the run is
\* aborted with the transport error, has issued no storage operation and has
\* left the table as it was.
C8_OneRequestNoRetry ==
    /\ reqs = IF pc = "idle" THEN 0 ELSE 1
    /\ resp = "fail" =>
           /\ pc = "aborted"
           /\ err = "TransportError"
           /\ ops = <<>>
           /\ store = store0

\* the request of a run failed on a table that holds rows
C8_Witness == resp = "fail" /\ pc = "aborted" /\ store # {}

\* C9: after a response that is not a list the run has no record and no row,
\* issues no upsert, leaves the table as it was, and ends early only if the
\* verifier's read fails.
C9_NonListCompletes ==
    resp = "nonlist" =>
        /\ data = <<>>
        /\ rows = <<>>
        /\ \A c \in DOMAIN ops : ops[c].kind # "upsert"
        /\ store = store0
        /\ pc = "aborted" => err = "StorageError"

\* C10: once the verifier's read has returned, the run is done with a report
\* and the table is what upsert_rows left.
C10_VerifierNeverFatal ==
    (ops # <<>> /\ ops[Len(ops)] = SelectOp(TRUE)) =>
        /\ pc = "done"
        /\ report # <<>>
        /\ store = upsert_rows(store0, rows)

====
